---- MODULE Spec2Model ----
(***************************************************************************)
(* Verification model of the policy-change governance core:                *)
(*   - regulatory-sentinel: the approval gate (HumanApprovalAgent), the    *)
(*     agents that run before it and RegulatoryWorkflow.run;               *)
(*   - policy-sync (reggenai): the cross-critique conflict resolver of     *)
(*     AgentOrchestrator.analyze_clause.                                   *)
(* Texts, ids and reviewers are abstract strings; confidences are          *)
(* integers in hundredths so that sums are exact.                          *)
(***************************************************************************)
EXTENDS Integers, Sequences, FiniteSets, TLC

(* ----------------------------- bounds ---------------------------------- *)
MaxProposals == 2
MaxAudit == 6
MaxImpactRows == 2
MaxPartial == 1

(* ------------------------ program constants ---------------------------- *)
MIN_POLICY_COUNT == 1000
CommitEvery == 100

NULL == "NULL"
EmptyText == ""

PolicyIds == {"POL-0001", "POL-0002"}
Reviewers == {"alice", "bob"}
Comments == {"note"}
RegulationId == "REG-1"

ProposalIdPool == <<"p1", "p2", "p3", "p4", "p5", "p6">>
DraftPool == <<"A1", "A2", "A3", "A4", "A5", "A6">>

(* A version string "v<major>.<minor>" is kept as its parsed shape:        *)
(* v = it starts with "v", parts = the integers between the dots.          *)
Ver(major, minor) == [v |-> TRUE, parts |-> <<major, minor>>]

\* The versions the generator's random draw gives the tracked policies.
GeneratedVersion(p) == IF p = "POL-0001" THEN Ver(1, 0) ELSE Ver(2, 5)
GeneratedText == "T0"

VARIABLES
  policies,      \* policies table (tracked rows): policy_id -> [policy_text, version]
  policyCount,   \* SELECT COUNT(*) FROM policies
  impactRows,    \* impact_analyses table: sequence of policy ids (level != None)
  proposals,     \* change_proposals table: proposal_id -> row
  versions,      \* policy_versions table, in creation order
  auditLog,      \* audit_logs table, in creation order
  ret,           \* what the last completed call returned, and who made it
  wf,            \* the workflow state returned, when the last call was RegulatoryWorkflow.run
  sess,          \* concurrent decision calls: session -> its local state
  orch,          \* policy-sync: one AgentOrchestrator and its analyze_clause call
  sync,          \* policy-sync: the patch database, the policy store and the ledger file
  rag,           \* RAGImpactAgent: its configuration and the impacts of one run
  call           \* an analysing step and its call of an external generative service

vars == <<policies, policyCount, impactRows, proposals, versions, auditLog, ret, wf, sess, orch, sync, rag, call>>

Sessions == {"s1", "s2"}

\* The database as one value, so that a handler's successive writes compose.
DB == [policies |-> policies, policyCount |-> policyCount, impactRows |-> impactRows,
       proposals |-> proposals, versions |-> versions, auditLog |-> auditLog]
Store(d) ==
  /\ policies' = d.policies
  /\ policyCount' = d.policyCount
  /\ impactRows' = d.impactRows
  /\ proposals' = d.proposals
  /\ versions' = d.versions
  /\ auditLog' = d.auditLog
  /\ Len(d.auditLog) <= MaxAudit

(* ------------------------------ helpers -------------------------------- *)
Range(s) == {s[i] : i \in 1..Len(s)}

\* Python's `a or b`: the first operand unless it is falsy (None or "").
Falsy(t) == t = NULL \/ t = EmptyText
PyOr(a, b) == IF Falsy(a) THEN b ELSE a

AuditEntry(action, etype, eid, by, decision) ==
  [action_type |-> action, entity_type |-> etype, entity_id |-> eid,
   performed_by |-> by, human_decision |-> decision]

NoRet == [op |-> "none", status |-> "NONE", proposal_id |-> NULL, reviewer |-> NULL, error |-> NULL]
Ret(op, status, pid, reviewer, error) ==
  [op |-> op, status |-> status, proposal_id |-> pid, reviewer |-> reviewer, error |-> error]

\* create_initial_state: the workflow state before any phase has run.
\* trace lists the phases started, in order.
create_initial_state ==
  [status |-> "RUNNING", current_phase |-> "INITIALIZATION",
   error |-> NULL, error_phase |-> NULL,
   clause_count |-> 0, impact_analyses |-> << >>, proposals |-> << >>,
   remediation_proposals |-> << >>, pending_count |-> 0, trace |-> << >>]
NoWf == [create_initial_state EXCEPT !.status = "NONE"]

EmptyFn == [x \in {} |-> NULL]
NoProposalRow == [policy_id |-> NULL, before_text |-> NULL, after_proposed_text |-> NULL,
                  status |-> "NONE", reviewer_id |-> NULL, reviewed_at |-> 0,
                  review_comments |-> NULL]
NoPolicyRow == [policy_text |-> NULL, version |-> [v |-> FALSE, parts |-> << >>]]

IdleSess == [pc |-> "idle", op |-> "none", pid |-> NULL, reviewer |-> NULL, comment |-> NULL,
             prop |-> NoProposalRow, polFound |-> FALSE, pol |-> NoPolicyRow,
             status |-> "NONE", error |-> NULL]

\* No AgentOrchestrator built.  settles: whether the added agents read the
\* outputs they are given; seen: the outputs each critique call was given;
\* history: the outputs before round 0 and at the end of each round; alias:
\* per target, the place in `accepted` of the patch whose value is the very
\* object the target now holds (0: none).
NoOrch == [order |-> << >>, proposal |-> EmptyFn, settles |-> FALSE, outputs |-> EmptyFn,
           round |-> 0, patches |-> << >>, chosen |-> << >>, accepted |-> << >>,
           ledger |-> << >>, seen |-> << >>, history |-> << >>, alias |-> EmptyFn,
           done |-> FALSE]

\* policy-sync's database and ledger file before anything is stored.
\* patches: patch_id -> row; store: policy_id -> policy_text; policy_versions
\* and audit_events in creation order; ledger: the lines of audit.jsonl.
NoSync == [patches |-> EmptyFn, store |-> EmptyFn, policy_versions |-> << >>,
           audit_events |-> << >>, ledger |-> << >>,
           ret |-> [op |-> "none", code |-> 0, status |-> "NONE",
                    patch_id |-> NULL, reviewer |-> NULL]]

\* RAGImpactAgent before any run: use_llm from the constructor; stored: the
\* ImpactAnalysis rows committed; returned: result["impact_analyses"].
NoRag == [use_llm |-> FALSE, status |-> "NONE", stored |-> << >>, returned |-> << >>]

\* No analysing step started.  prog: the step run; pc: where it stands; at:
\* how many analyses of analyze_clause are done; similarity_score and
\* domain_match: the match given to the impact analysis; log: per service
\* call, the answer received and what the step made of it; result: what the
\* step returned.
NoCall == [prog |-> "none", pc |-> "idle", at |-> 0, similarity_score |-> 0,
           domain_match |-> FALSE, log |-> << >>, result |-> NULL]

(* ===================== regulatory-sentinel agents ====================== *)
(* Each agent is a function of the database and of the outcome of what it   *)
(* does not control (random choices, external services, exceptions); it     *)
(* returns the new database, its status and its output.                     *)
Out(d, status, out) == [db |-> d, status |-> status, out |-> out]
\* A log that keeps only its latest entry per entity: a new entry replaces the last one.
Logged_replacing(d, e) ==
  [d EXCEPT !.auditLog = IF @ = << >> THEN <<e>> ELSE [@ EXCEPT ![Len(@)] = e]]
Logged(d, e) == [d EXCEPT !.auditLog = Append(@, e)]
SystemEntry(action) == AuditEntry(action, "regulation", RegulationId, "SYSTEM", NULL)
SeqsUpTo(S, n) == UNION {[1..k -> S] : k \in 0..n}

\* Tracked policy ids are the first ids PolicyGeneratorAgent hands out
\* ("POL-{existing_count + generated_count + 1:04d}").
TrackedUpTo(n) == {p \in PolicyIds : (p = "POL-0001" /\ n >= 1) \/ (p = "POL-0002" /\ n >= 2)}

\* c.ok: no exception; c.commits: periodic commits done before the exception.
GenChoices == [ok : BOOLEAN, commits : {0, 1}]
\* The outcomes that matter in database d: none when nothing is generated,
\* and no periodic commit to count when there is no exception.
GenChoicesFor(d) ==
  {c \in GenChoices : /\ (d.policyCount >= MIN_POLICY_COUNT => c.ok)
                      /\ (c.ok => c.commits = 0)
                      /\ (d.policyCount >= MaxPartial * CommitEvery => c.commits = 0)}

WithPolicies(d, n) ==
  [d EXCEPT !.policyCount = n,
            !.policies = [p \in TrackedUpTo(n) |->
                            IF p \in DOMAIN d.policies THEN d.policies[p]
                            ELSE [policy_text |-> GeneratedText, version |-> GeneratedVersion(p)]]]

(* PolicyGeneratorAgent.run(target_count = MIN_POLICY_COUNT)                *)
PolicyGeneratorAgent_run(d, c) ==
  IF d.policyCount >= MIN_POLICY_COUNT
    THEN Out(d, "POLICY_DB_READY", d.policyCount)
  ELSE IF c.ok
    THEN LET d1 == WithPolicies(d, MIN_POLICY_COUNT)
             d2 == Logged(d1, AuditEntry("POLICY_GENERATED", "policy_corpus",
                                         "bulk_generation", "SYSTEM", NULL))
         IN Out(d2, "POLICY_DB_READY", d2.policyCount)
    ELSE LET d1 == WithPolicies(d, d.policyCount + c.commits * CommitEvery)
         IN Out(d1, "FAILED", d1.policyCount)

(* RegulatoryIngestionAgent.run: c.clauses = number of clauses parsed.      *)
IngestChoices == [ok : BOOLEAN, clauses : {0, 1}]

RegulatoryIngestionAgent_run(d, c) ==
  IF c.ok
    THEN Out(Logged(d, SystemEntry("REGULATION_INGESTED")), "SUCCESS", c.clauses)
    ELSE Out(d, "FAILED", 0)

(* RAGImpactAgent.run(regulation_id, clauses): c.found = the policies whose *)
(* impact level is not "None", one entry per stored ImpactAnalysis.         *)
RAGImpactAgent_run(d, nclauses, c) ==
  IF nclauses = 0
    THEN Out(d, "FAILED", << >>)                   \* "No clauses found for regulation"
  ELSE IF c.ok
    THEN Out(Logged([d EXCEPT !.impactRows = @ \o c.found], SystemEntry("IMPACT_ANALYZED")),
             "SUCCESS", c.found)
    ELSE Out(d, "FAILED", << >>)                   \* exception, rollback

(* DiffEngineAgent.run(regulation_id, impact_analyses).                     *)
(* fromDb: impact_analyses is None and the rows come from the database with *)
(* the policy's current text; otherwise `given` is the caller's list, whose *)
(* dicts (RAGImpactAgent's impacts) carry no "policy_text" key.             *)
NextProposalId(d, n) == ProposalIdPool[Cardinality(DOMAIN d.proposals) + n]
Draft(d, n) == DraftPool[Cardinality(DOMAIN d.proposals) + n]

DbImpacts(d) == SelectSeq(d.impactRows, LAMBDA p : p \in DOMAIN d.policies)

NewProposal(d, pol_id, after) ==
  [policy_id |-> pol_id,
   before_text |-> d.policies[pol_id].policy_text,
   after_proposed_text |-> after,
   status |-> "PENDING",
   reviewer_id |-> NULL,
   reviewed_at |-> 0,
   review_comments |-> NULL]

\* What the drafting step hands back for the n-th new proposal: a fresh text
\* (template or generated), or an empty text from the generative service.
DraftKinds == {"fresh", "empty"}
DraftText(d, n, kind) == IF kind = "fresh" THEN Draft(d, n) ELSE EmptyText
DiffChoices(n) == [ok : BOOLEAN, kind : [1..n -> DraftKinds]]

DiffEngineAgent_run(d, fromDb, given, c) ==
  LET impacts == IF fromDb THEN DbImpacts(d) ELSE given
      n == Len(impacts)
      created == [i \in 1..n |-> NextProposalId(d, i)]
  IN
  IF impacts = << >>
    THEN Out(d, "SUCCESS", << >>)                  \* "No impacted policies require changes"
  ELSE IF ~fromDb
    THEN Out(d, "FAILED", << >>)                   \* impact["policy_text"] raises KeyError
  ELSE IF c.ok
    THEN LET rows == [q \in DOMAIN d.proposals \cup Range(created) |->
                        IF q \in DOMAIN d.proposals THEN d.proposals[q]
                        ELSE LET i == CHOOSE j \in 1..n : created[j] = q
                             IN NewProposal(d, impacts[i], DraftText(d, i, c.kind[i]))]
         IN Out(Logged([d EXCEPT !.proposals = rows], SystemEntry("DIFF_GENERATED")),
                "SUCCESS", created)
    ELSE Out(d, "FAILED", << >>)                   \* exception, rollback

PendingIds(d) == {q \in DOMAIN d.proposals : d.proposals[q].status = "PENDING"}

(* RemediationAgent.run(regulation_id, proposals): it rewrites assumptions, *)
(* risk_level and confidence of each listed proposal (columns this model    *)
(* does not carry) and logs once.  n = number of proposals it works on.     *)
RemediationAgent_run(d, n, ok) ==
  IF n = 0
    THEN Out(d, "SUCCESS", 0)                      \* "No proposals pending remediation"
  ELSE IF ok
    THEN Out(Logged(d, SystemEntry("REMEDIATION_PROPOSED")), "SUCCESS", n)
    ELSE Out(d, "FAILED", 0)

\* A gate that decides by itself: it queues the pending proposals and marks them approved.
HumanApprovalAgent_run_deciding(d, n) ==
  IF n = 0
    THEN Out(d, "NO_PENDING_APPROVALS", 0)
    ELSE Out(Logged([d EXCEPT !.proposals =
                        [q \in DOMAIN @ |-> IF @[q].status = "PENDING"
                                              THEN [@[q] EXCEPT !.status = "APPROVED"]
                                              ELSE @[q]]],
                    SystemEntry("HUMAN_REVIEW_REQUESTED")), "AWAITING_APPROVAL", n)

(* HumanApprovalAgent.run(regulation_id, proposals): queues, never decides. *)
HumanApprovalAgent_run(d, n) ==
  IF n = 0
    THEN Out(d, "NO_PENDING_APPROVALS", 0)
    ELSE Out(Logged(d, SystemEntry("HUMAN_REVIEW_REQUESTED")), "AWAITING_APPROVAL", n)

(* AuditGovernanceAgent.run: writes the report and logs once.               *)
AuditGovernanceAgent_run(d) ==
  Out(Logged(d, SystemEntry("WORKFLOW_COMPLETED")), "SUCCESS", 0)

(* ================= HumanApprovalAgent: decision commands =============== *)
\* _increment_version: "vM.N" -> "vM.(N+1)", "vM" -> "vM.1", anything else -> "v1.0".
_increment_version(current) ==
  IF current.v /\ Len(current.parts) >= 1
    THEN Ver(current.parts[1],
             (IF Len(current.parts) > 1 THEN current.parts[2] ELSE 0) + 1)
    ELSE Ver(1, 0)

\* The text approve() installs: after_proposed_text or before_text or policy_text or "".
ApprovedText(prop, pol) ==
  PyOr(prop.after_proposed_text, PyOr(prop.before_text, PyOr(pol.policy_text, EmptyText)))

\* The text approve() stores in the PolicyVersion it adds: policy.policy_text or "",
\* read before the policy row is assigned its new text.
VersionText(prop, pol) == PyOr(pol.policy_text, EmptyText)

NewPolicyVersion(pid, reviewer, prop, pol) ==
  [policy_id |-> prop.policy_id,
   version_number |-> _increment_version(pol.version),
   policy_text |-> VersionText(prop, pol),
   changed_by |-> reviewer,
   proposal_id |-> pid]

\* The ORM's UPDATE carries only the columns whose new value differs from the
\* value the session loaded; the other columns keep what the table holds now.
Flush(loaded, new, current) == IF new # loaded THEN new ELSE current

\* Logical time of a write: the index of the audit entry written with it.
Now(d) == Len(d.auditLog) + 1

\* Decision fields written on a proposal row.
Decide(d, row, loaded, status, reviewer, comment) ==
  [row EXCEPT !.status = Flush(loaded.status, status, @),
              !.reviewer_id = Flush(loaded.reviewer_id, reviewer, @),
              !.reviewed_at = Now(d),
              !.review_comments = Flush(loaded.review_comments, comment, @)]

\* An approve() that updates the policy but adds no PolicyVersion.
ApproveWrites_unversioned(d, pid, reviewer, comment, lprop, polFound, lpol) ==
  LET pol_id == lprop.policy_id
      d1 == [d EXCEPT !.proposals[pid] = Decide(d, @, lprop, "APPROVED", reviewer, comment)]
      d2 == IF polFound /\ pol_id \in DOMAIN d.policies
              THEN [d1 EXCEPT
                      !.policies[pol_id] =
                         [policy_text |-> Flush(lpol.policy_text, ApprovedText(lprop, lpol),
                                                @.policy_text),
                          version |-> Flush(lpol.version, _increment_version(lpol.version),
                                            @.version)]]
              ELSE d1
  IN Logged(d2, AuditEntry("PROPOSAL_APPROVED", "proposal", pid, reviewer, "APPROVE"))

\* approve(), lines 149-198: what its commit writes to database d, given the
\* proposal row (lprop) and the policy row (polFound, lpol) the session loaded.
ApproveWrites(d, pid, reviewer, comment, lprop, polFound, lpol) ==
  LET pol_id == lprop.policy_id
      d1 == [d EXCEPT !.proposals[pid] = Decide(d, @, lprop, "APPROVED", reviewer, comment)]
      d2 == IF polFound /\ pol_id \in DOMAIN d.policies
              THEN [d1 EXCEPT
                      !.versions = Append(@, NewPolicyVersion(pid, reviewer, lprop, lpol)),
                      !.policies[pol_id] =
                         [policy_text |-> Flush(lpol.policy_text, ApprovedText(lprop, lpol),
                                                @.policy_text),
                          version |-> Flush(lpol.version, _increment_version(lpol.version),
                                            @.version)]]
              ELSE d1
  IN Logged(d2, AuditEntry("PROPOSAL_APPROVED", "proposal", pid, reviewer, "APPROVE"))

\* reject(), lines 238-259.
RejectWrites(d, pid, reviewer, reason, lprop) ==
  Logged([d EXCEPT !.proposals[pid] = Decide(d, @, lprop, "REJECTED", reviewer, reason)],
         AuditEntry("PROPOSAL_REJECTED", "proposal", pid, reviewer, "REJECT"))

\* A request_modification() that also installs the proposed text in the policy.
ModifyWrites_installing(d, pid, reviewer, note, lprop) ==
  Logged([d EXCEPT !.proposals[pid] = Decide(d, @, lprop, "MODIFIED", reviewer, note),
                   !.policies[lprop.policy_id].policy_text = lprop.after_proposed_text],
         AuditEntry("PROPOSAL_MODIFIED", "proposal", pid, reviewer, "MODIFY"))

\* request_modification(), lines 296-316.
ModifyWrites(d, pid, reviewer, note, lprop) ==
  Logged([d EXCEPT !.proposals[pid] = Decide(d, @, lprop, "MODIFIED", reviewer, note)],
         AuditEntry("PROPOSAL_MODIFIED", "proposal", pid, reviewer, "MODIFY"))

\* A guard that only refuses what was already approved.
ApproveRefuses_approved_only(row) == row.status = "APPROVED"

\* The status guards: "Proposal already <status>".
ApproveRefuses(row) == row.status # "PENDING"
RejectRefuses(row) == row.status # "PENDING"
\* request_modification() checks only that the proposal exists.
ModifyRefuses(row) == FALSE

LoadedPolicy(d, pol_id) == IF pol_id \in DOMAIN d.policies THEN d.policies[pol_id] ELSE NoPolicyRow

NotFound(d, op, pid, reviewer) == Out(d, "ERROR", Ret(op, "ERROR", pid, reviewer, "Proposal not found"))
Refused(d, op, pid, reviewer) == Out(d, "ERROR", Ret(op, "ERROR", pid, reviewer, "Proposal already decided"))

(* approve(proposal_id, reviewer_id, comments) as one uninterrupted call.   *)
HumanApprovalAgent_approve(d, pid, reviewer, comment) ==
  IF pid \notin DOMAIN d.proposals THEN NotFound(d, "approve", pid, reviewer)
  ELSE IF ApproveRefuses(d.proposals[pid]) THEN Refused(d, "approve", pid, reviewer)
  ELSE LET row == d.proposals[pid] IN
       Out(ApproveWrites(d, pid, reviewer, comment, row,
                         row.policy_id \in DOMAIN d.policies, LoadedPolicy(d, row.policy_id)),
           "APPROVED", Ret("approve", "APPROVED", pid, reviewer, NULL))

(* reject(proposal_id, reviewer_id, reason).                                *)
HumanApprovalAgent_reject(d, pid, reviewer, reason) ==
  IF pid \notin DOMAIN d.proposals THEN NotFound(d, "reject", pid, reviewer)
  ELSE IF RejectRefuses(d.proposals[pid]) THEN Refused(d, "reject", pid, reviewer)
  ELSE Out(RejectWrites(d, pid, reviewer, reason, d.proposals[pid]),
           "REJECTED", Ret("reject", "REJECTED", pid, reviewer, NULL))

(* request_modification(proposal_id, reviewer_id, modification_request).    *)
HumanApprovalAgent_request_modification(d, pid, reviewer, note) ==
  IF pid \notin DOMAIN d.proposals THEN NotFound(d, "request_modification", pid, reviewer)
  ELSE IF ModifyRefuses(d.proposals[pid]) THEN Refused(d, "request_modification", pid, reviewer)
  ELSE Out(ModifyWrites(d, pid, reviewer, note, d.proposals[pid]),
           "MODIFICATION_REQUESTED",
           Ret("request_modification", "MODIFICATION_REQUESTED", pid, reviewer, NULL))

(* ======================= RegulatoryWorkflow.run ======================== *)
(* A run state is [db, wf, go]: go is FALSE once run() has returned.        *)
Started(w, phase) == [w EXCEPT !.current_phase = phase, !.trace = Append(@, phase)]
Failed(w, msg) == [w EXCEPT !.error = msg, !.error_phase = w.current_phase]
Run(d, w, go) == [db |-> d, wf |-> w, go |-> go]

\* A check that lets every run proceed.
can_proceed_always(d) == d.policyCount >= 0

\* OrchestratorAgent.check_prerequisites("REGULATORY_INGESTION")
can_proceed(d) == ~(d.policyCount < MIN_POLICY_COUNT)

\* lines 92-112: phase 1 or its skip branch, then the policy requirement.
_run_policy_generation(d, w, skip, c) ==
  LET r == PolicyGeneratorAgent_run(d, c)
      d1 == IF skip THEN d ELSE r.db
      w1 == IF skip THEN w ELSE Started(w, "POLICY_GENERATION")
  IN
  IF ~skip /\ r.status = "FAILED"
    THEN Run(d1, Failed(w1, "Policy generation failed"), FALSE)
  ELSE IF ~can_proceed(d1)
    THEN Run(d1, [w1 EXCEPT !.status = "BLOCKED", !.error = "Blocking: Policy count",
                            !.error_phase = "POLICY_GENERATION"], FALSE)
    ELSE Run(d1, w1, TRUE)

\* Each later phase takes the run state s and does nothing once run() has returned.
_run_regulatory_ingestion(s, c) ==
  LET r == RegulatoryIngestionAgent_run(s.db, c)
      w1 == Started(s.wf, "REGULATORY_INGESTION")
  IN IF ~s.go THEN s
     ELSE IF r.status = "FAILED"
       THEN Run(r.db, Failed(w1, "Regulatory ingestion failed"), FALSE)
       ELSE Run(r.db, [w1 EXCEPT !.clause_count = r.out], TRUE)

_run_rag_analysis(s, c) ==
  LET r == RAGImpactAgent_run(s.db, s.wf.clause_count, c)
      w1 == Started(s.wf, "RAG_ANALYSIS")
  IN IF ~s.go THEN s
     ELSE IF r.status = "FAILED"
       THEN Run(r.db, Failed(w1, "RAG analysis failed"), FALSE)
       ELSE Run(r.db, [w1 EXCEPT !.impact_analyses = r.out], TRUE)

_run_diff_generation(s, c) ==
  LET r == DiffEngineAgent_run(s.db, FALSE, s.wf.impact_analyses, c)
      w1 == Started(s.wf, "DIFF_GENERATION")
  IN IF ~s.go THEN s
     ELSE IF r.status = "FAILED"
       THEN Run(r.db, Failed(w1, "Diff generation failed"), FALSE)
       ELSE Run(r.db, [w1 EXCEPT !.proposals = r.out], TRUE)

_run_remediation(s, ok) ==
  LET r == RemediationAgent_run(s.db, Len(s.wf.proposals), ok)
      w1 == Started(s.wf, "REMEDIATION")
  IN IF ~s.go THEN s
     ELSE IF r.status = "FAILED"
       THEN Run(r.db, Failed(w1, "Remediation failed"), FALSE)
       ELSE Run(r.db, [w1 EXCEPT !.remediation_proposals = s.wf.proposals], TRUE)

_run_human_approval(s) ==
  LET r == HumanApprovalAgent_run(s.db, Len(s.wf.remediation_proposals))
  IN IF ~s.go THEN s
     ELSE Run(r.db, [Started(s.wf, "HUMAN_APPROVAL") EXCEPT !.pending_count = r.out], TRUE)

\* lines 138-147: the audit phase, then the final status.
_run_audit(s) ==
  LET r == AuditGovernanceAgent_run(s.db)
  IN IF ~s.go THEN s
     ELSE Run(r.db, [Started(s.wf, "AUDIT") EXCEPT !.status = "AWAITING_HUMAN_REVIEW",
                                                   !.current_phase = "HUMAN_APPROVAL"], FALSE)

RegulatoryWorkflow_run(d, skip, cGen, cIng, cRag, cDiff, okRem) ==
  _run_audit(
    _run_human_approval(
      _run_remediation(
        _run_diff_generation(
          _run_rag_analysis(
            _run_regulatory_ingestion(
              _run_policy_generation(d, create_initial_state, skip, cGen),
              cIng),
            cRag),
          cDiff),
        okRem)))

(* ================================ Init ================================= *)
\* An empty database, no workflow run yet, no decision call in progress.
Init ==
  /\ policies = EmptyFn
  /\ policyCount = 0
  /\ impactRows = << >>
  /\ proposals = EmptyFn
  /\ versions = << >>
  /\ auditLog = << >>
  /\ ret = NoRet
  /\ wf = NoWf
  /\ sess = [s \in Sessions |-> IdleSess]
  /\ orch = NoOrch
  /\ sync = NoSync
  /\ rag = NoRag
  /\ call = NoCall

(* =============================== actions =============================== *)
\* The impact analyses RAGImpactAgent can find in database d after an
\* ingestion with outcome cIng (none when it is given no clause).
RagChoices(d, cIng) ==
  IF cIng.ok /\ cIng.clauses > 0
    THEN [ok : BOOLEAN, found : SeqsUpTo(DOMAIN d.policies, MaxImpactRows - Len(d.impactRows))]
    ELSE {[ok |-> TRUE, found |-> << >>]}

WorkflowRun ==
  \E skip \in BOOLEAN, cIng \in IngestChoices, okLater \in BOOLEAN :
  \E cGen \in (IF skip THEN {CHOOSE c \in GenChoicesFor(DB) : c.ok} ELSE GenChoicesFor(DB)) :
  \E cRag \in RagChoices(_run_policy_generation(DB, create_initial_state, skip, cGen).db, cIng) :
    LET s == RegulatoryWorkflow_run(DB, skip, cGen, cIng, cRag, [ok |-> okLater, kind |-> << >>], okLater)
    IN /\ Store(s.db)
       /\ wf' = s.wf
       /\ ret' = Ret("workflow", s.wf.status, NULL, "SYSTEM", NULL)
       /\ UNCHANGED <<sess, orch, sync, rag, call>>

PolicyGeneratorRun ==
  \E c \in GenChoicesFor(DB) :
    LET r == PolicyGeneratorAgent_run(DB, c)
    IN /\ Store(r.db)
       /\ ret' = Ret("policy_generator", r.status, NULL, "SYSTEM", NULL)
       /\ wf' = NoWf /\ UNCHANGED <<sess, orch, sync, rag, call>>

DiffEngineRun ==
  \E c \in DiffChoices(Len(DbImpacts(DB))) :
    LET r == DiffEngineAgent_run(DB, TRUE, << >>, c)
    IN /\ Cardinality(DOMAIN r.db.proposals) <= MaxProposals
       /\ Store(r.db)
       /\ ret' = Ret("diff_engine", r.status, NULL, "SYSTEM", NULL)
       /\ wf' = NoWf /\ UNCHANGED <<sess, orch, sync, rag, call>>

RemediationRun ==
  \E ok \in BOOLEAN :
    LET r == RemediationAgent_run(DB, Cardinality(PendingIds(DB)), ok)
    IN /\ Store(r.db)
       /\ ret' = Ret("remediation", r.status, NULL, "SYSTEM", NULL)
       /\ wf' = NoWf /\ UNCHANGED <<sess, orch, sync, rag, call>>

HumanApprovalRun ==
  LET r == HumanApprovalAgent_run(DB, Cardinality(PendingIds(DB)))
  IN /\ Store(r.db)
     /\ ret' = Ret("human_approval_run", r.status, NULL, "SYSTEM", NULL)
     /\ wf' = NoWf /\ UNCHANGED <<sess, orch, sync, rag, call>>

CallableIds == {ProposalIdPool[i] : i \in 1..MaxProposals}
DecisionOps == {"approve", "reject", "request_modification"}

Approve ==
  \E pid \in CallableIds, reviewer \in Reviewers, comment \in Comments :
    LET r == HumanApprovalAgent_approve(DB, pid, reviewer, comment)
    IN Store(r.db) /\ ret' = r.out /\ wf' = NoWf /\ UNCHANGED <<sess, orch, sync, rag, call>>

Reject ==
  \E pid \in CallableIds, reviewer \in Reviewers, reason \in Comments :
    LET r == HumanApprovalAgent_reject(DB, pid, reviewer, reason)
    IN Store(r.db) /\ ret' = r.out /\ wf' = NoWf /\ UNCHANGED <<sess, orch, sync, rag, call>>

RequestModification ==
  \E pid \in CallableIds, reviewer \in Reviewers, note \in Comments :
    LET r == HumanApprovalAgent_request_modification(DB, pid, reviewer, note)
    IN Store(r.db) /\ ret' = r.out /\ wf' = NoWf /\ UNCHANGED <<sess, orch, sync, rag, call>>

Next ==
  \/ WorkflowRun
  \/ PolicyGeneratorRun
  \/ DiffEngineRun
  \/ RemediationRun
  \/ HumanApprovalRun
  \/ Approve
  \/ Reject
  \/ RequestModification

Spec == Init /\ [][Next]_vars

(* ============ decision calls as interleaved sessions (SpecConc) ========= *)
(* Two callers, each with its own database session, make one decision call  *)
(* each.  A call is three steps: it loads the proposal and tests its status  *)
(* (ReadStatus); it sets the decision fields on the loaded row and, for      *)
(* approve, loads the policy and prepares the new version (Write); it        *)
(* commits (Commit), which flushes its pending writes in one transaction.    *)
(* Nothing holds a lock between the steps and no row carries a version       *)
(* counter that the UPDATE checks.                                           *)
Refuses(op, row) ==
  CASE op = "approve" -> ApproveRefuses(row)
    [] op = "reject" -> RejectRefuses(row)
    [] OTHER -> ModifyRefuses(row)

SuccessStatus(op) ==
  CASE op = "approve" -> "APPROVED"
    [] op = "reject" -> "REJECTED"
    [] OTHER -> "MODIFICATION_REQUESTED"

Writes(d, c) ==
  CASE c.op = "approve" -> ApproveWrites(d, c.pid, c.reviewer, c.comment, c.prop, c.polFound, c.pol)
    [] c.op = "reject" -> RejectWrites(d, c.pid, c.reviewer, c.comment, c.prop)
    [] OTHER -> ModifyWrites(d, c.pid, c.reviewer, c.comment, c.prop)

\* The database a deployment holds when proposals await review: the pipeline's
\* agents run once on an empty database, the impact analysis having found `found`.
EmptyDB == [policies |-> EmptyFn, policyCount |-> 0, impactRows |-> << >>,
            proposals |-> EmptyFn, versions |-> << >>, auditLog |-> << >>]
PipelineDB(found, cDiff) ==
  LET d1 == PolicyGeneratorAgent_run(EmptyDB, [ok |-> TRUE, commits |-> 0]).db
      d2 == RegulatoryIngestionAgent_run(d1, [ok |-> TRUE, clauses |-> 1]).db
      d3 == RAGImpactAgent_run(d2, 1, [ok |-> TRUE, found |-> found]).db
  IN DiffEngineAgent_run(d3, TRUE, << >>, cDiff).db

InitConc ==
  \E found \in SeqsUpTo(PolicyIds, MaxImpactRows) :
  \E cDiff \in DiffChoices(Len(found)) :
    /\ found # << >>
    /\ Len(found) <= MaxProposals
    /\ cDiff.ok
    /\ LET d == PipelineDB(found, cDiff)
       IN /\ policies = d.policies
          /\ policyCount = d.policyCount
          /\ impactRows = d.impactRows
          /\ proposals = d.proposals
          /\ versions = d.versions
          /\ auditLog = d.auditLog
    /\ ret = NoRet
    /\ wf = NoWf
    /\ sess = [s \in Sessions |-> IdleSess]
    /\ orch = NoOrch
    /\ sync = NoSync
    /\ rag = NoRag
    /\ call = NoCall

\* lines 136-147 (approve), 225-236 (reject), 286-294 (request_modification).
ReadStatus(s) ==
  \E op \in DecisionOps, pid \in CallableIds, reviewer \in Reviewers, comment \in Comments :
    LET c == [IdleSess EXCEPT !.op = op, !.pid = pid, !.reviewer = reviewer, !.comment = comment]
        found == pid \in DOMAIN proposals
        row == IF found THEN proposals[pid] ELSE NoProposalRow
        refused == ~found \/ Refuses(op, row)
        r == IF found THEN Refused(DB, op, pid, reviewer) ELSE NotFound(DB, op, pid, reviewer)
    IN /\ sess[s].pc = "idle"
       /\ sess' = [sess EXCEPT ![s] =
                     IF refused
                       THEN [c EXCEPT !.pc = "done", !.status = "ERROR", !.error = r.out.error]
                       ELSE [c EXCEPT !.pc = "checked", !.prop = row]]
       /\ ret' = IF refused THEN r.out ELSE ret
       /\ UNCHANGED <<policies, policyCount, impactRows, proposals, versions, auditLog, wf, orch, sync, rag, call>>

\* lines 149-196 (approve), 238-257 (reject), 296-314 (request_modification):
\* the assignments are pending in the session; approve reads the policy row here.
Write(s) ==
  LET c == sess[s]
      pol_id == c.prop.policy_id
  IN /\ c.pc = "checked"
     /\ sess' = [sess EXCEPT ![s] =
                   IF c.op = "approve"
                     THEN [c EXCEPT !.pc = "written",
                                    !.polFound = pol_id \in DOMAIN policies,
                                    !.pol = LoadedPolicy(DB, pol_id)]
                     ELSE [c EXCEPT !.pc = "written"]]
     /\ UNCHANGED <<policies, policyCount, impactRows, proposals, versions, auditLog, ret, wf, orch, sync, rag, call>>

\* session.commit() and the return: lines 198-206, 259-266, 316-323.
Commit(s) ==
  LET c == sess[s]
  IN /\ c.pc = "written"
     /\ Store(Writes(DB, c))
     /\ sess' = [sess EXCEPT ![s] = [c EXCEPT !.pc = "done", !.status = SuccessStatus(c.op)]]
     /\ ret' = Ret(c.op, SuccessStatus(c.op), c.pid, c.reviewer, NULL)
     /\ UNCHANGED <<wf, orch, sync, rag, call>>

NextConc ==
  \E s \in Sessions :
    \/ ReadStatus(s)
    \/ Write(s)
    \/ Commit(s)

SpecConc == InitConc /\ [][NextConc]_vars

(* ============ policy-sync: AgentOrchestrator.analyze_clause ============= *)
(* The orchestrator holds its agents in registration order (a dict): the    *)
(* five core agents, whose critique() returns nothing, then the agents      *)
(* added to it.  Each added agent's critique() returns the same list of at  *)
(* most one patch in every round.  Confidences are hundredths.              *)
CoreAgents == <<"regulatory", "policy", "risk", "diff", "audit">>
AddedAgents == {"alpha", "beta", "a1"}
agent_priority == <<"alpha", "beta">> \o CoreAgents
max_rounds == 2

\* A patch value is a JSON-like container: a list or a tuple of policy ids.
Val(kind, items) == [kind |-> kind, items |-> items]
NoValue == Val("none", "")
PatchValues == {Val("list", "P-X"), Val("list", "P-Y"), Val("tuple", "P-X")}
Confidences == {40, 45, 80}
PatchTargets == {"policy", "legal"}
PatchFields == {"policy_mappings"}

Patch(target, field, value, confidence) ==
  [target |-> target, field |-> field, op |-> "replace", value |-> value,
   confidence |-> confidence, agent |-> NULL, round |-> 0]
CritiqueReturns ==
  {<< >>} \cup {<<Patch(t, f, v, c)>> : t \in PatchTargets, f \in PatchFields,
                                       v \in PatchValues, c \in Confidences}

Perms(S) == {f \in [1..Cardinality(S) -> S] : \A i, j \in 1..Cardinality(S) : i # j => f[i] # f[j]}

\* A patch value that is a dict: items gives the value of each field.
DictVal(fields) == Val("dict", fields)

\* An output of analyze(): a dict of fields, or whatever value replaced it.
DictOutput(fields) == [dict |-> TRUE, fields |-> fields, whole |-> NoValue]
WholeOutput(value) ==
  IF value.kind = "dict"
    THEN DictOutput(value.items)
    ELSE [dict |-> FALSE, fields |-> [f \in PatchFields |-> NoValue], whole |-> value]
\* lines 169-178: the outputs of the core analyses.
InitialOutputs ==
  [t \in {"regulatory", "policy", "risk", "diff"} |->
     DictOutput([f \in PatchFields |-> IF t = "policy" THEN Val("list", "P-0") ELSE NoValue])]

\* A variant of _apply_patch that creates a missing target from the patch.
_apply_patch_creating(target_outputs, patch) ==
  IF patch.target \in DOMAIN target_outputs
    THEN [outputs |-> [target_outputs EXCEPT ![patch.target] = WholeOutput(patch.value)],
          applied |-> TRUE]
    ELSE [outputs |-> target_outputs @@ (patch.target :> WholeOutput(patch.value)),
          applied |-> TRUE]

\* lines 181-213
_apply_patch(target_outputs, patch) ==
  LET target == patch.target
      field == patch.field
      cur == target_outputs[target]
      same == [outputs |-> target_outputs, applied |-> FALSE]
  IN
  IF target \notin DOMAIN target_outputs THEN same
  ELSE IF field = NULL
    THEN IF cur # WholeOutput(patch.value)
           THEN [outputs |-> [target_outputs EXCEPT ![target] = WholeOutput(patch.value)],
                 applied |-> TRUE]
           ELSE same
  ELSE IF cur.dict /\ patch.op = "replace" /\ cur.fields[field] # patch.value
    THEN [outputs |-> [target_outputs EXCEPT ![target].fields[field] = patch.value],
          applied |-> TRUE]
    ELSE same

\* A loop that runs one round more.
InRange_inclusive(r) == r <= max_rounds

\* line 215, range(max_rounds): whether round r is run.
InRange(r) == r < max_rounds

\* A snapshot taken once, before the first round.
Snapshot_stale(outputs) == InitialOutputs

\* line 218: a new dict with the keys and the values of outputs.
Snapshot(outputs) == [t \in DOMAIN outputs |-> outputs[t]]

\* Whether the outputs an agent is given already hold what its patch sets.
InEffect(all_outputs, patch) ==
  /\ patch.target \in DOMAIN all_outputs
  /\ all_outputs[patch.target].dict
  /\ all_outputs[patch.target].fields[patch.field] = patch.value

\* lines 220-226, agent.critique(clause, all_outputs_snapshot) of every added
\* agent: an agent that reads the outputs proposes nothing once they hold
\* its value; the others return their list whatever they are given.
Critiques(proposal, settles, all_outputs) ==
  [name \in DOMAIN proposal |->
     IF settles THEN SelectSeq(proposal[name], LAMBDA q : ~InEffect(all_outputs, q))
                ELSE proposal[name]]

\* The arguments of the critique calls of round r, one per agent held.
Calls(names, r, all_outputs) ==
  [i \in 1..Len(names) |-> [agent |-> names[i], round |-> r, outputs |-> all_outputs]]

\* lines 218-254: the patches of round r, in the order the agents are held.
RECURSIVE Collect(_, _, _)
Collect(names, proposal, r) ==
  IF names = << >> THEN << >>
  ELSE LET name == Head(names)
           patches == IF name \in DOMAIN proposal THEN proposal[name] ELSE << >>
       IN [i \in 1..Len(patches) |-> [patches[i] EXCEPT !.agent = name, !.round = r]]
            \o Collect(Tail(names), proposal, r)

\* The keys of a dict filled from seq, in insertion order.
RECURSIVE InsertionOrder(_, _)
InsertionOrder(seq, seen) ==
  IF seq = << >> THEN << >>
  ELSE IF Head(seq) \in seen THEN InsertionOrder(Tail(seq), seen)
  ELSE <<Head(seq)>> \o InsertionOrder(Tail(seq), seen \cup {Head(seq)})

\* lines 259-263
GroupKey(p) == <<p.target, p.field>>
GroupKeys(all_patches) ==
  InsertionOrder([i \in 1..Len(all_patches) |-> GroupKey(all_patches[i])], {})
Group(all_patches, key) == SelectSeq(all_patches, LAMBDA p : GroupKey(p) = key)

\* json.dumps(value, sort_keys=True, default=str): a tuple is written as a list.
val_key(value) == value.items

\* lines 272-276: agg[val_key]['score']
RECURSIVE Score(_, _)
Score(patches, k) ==
  IF patches = << >> THEN 0
  ELSE (IF val_key(Head(patches).value) = k THEN Head(patches).confidence ELSE 0)
         + Score(Tail(patches), k)

\* A wrong choice: the value of the single most confident patch.
best_val_key_top_confidence(patches) ==
  LET i == CHOOSE i \in 1..Len(patches) :
             /\ \A j \in 1..Len(patches) : patches[j].confidence <= patches[i].confidence
             /\ \A j \in 1..(i - 1) : patches[j].confidence < patches[i].confidence
  IN val_key(patches[i].value)

\* line 279: max() over agg.items() returns the first key with the highest score.
best_val_key(patches) ==
  LET keys == InsertionOrder([i \in 1..Len(patches) |-> val_key(patches[i].value)], {})
      i == CHOOSE i \in 1..Len(keys) :
             /\ \A j \in 1..Len(keys) : Score(patches, keys[j]) <= Score(patches, keys[i])
             /\ \A j \in 1..(i - 1) : Score(patches, keys[j]) < Score(patches, keys[i])
  IN keys[i]

\* lines 284-288
agent_rank(agent) ==
  IF \E i \in 1..Len(agent_priority) : agent_priority[i] = agent
    THEN (CHOOSE i \in 1..Len(agent_priority) : agent_priority[i] = agent) - 1
    ELSE Len(agent_priority)

\* lines 290-291: sorted() is stable, so the first of the least candidates is chosen.
SortsBefore(p, q) ==
  \/ p.confidence > q.confidence
  \/ (p.confidence = q.confidence /\ agent_rank(p.agent) < agent_rank(q.agent))
Chosen(patches) ==
  LET candidates == SelectSeq(patches, LAMBDA p : val_key(p.value) = best_val_key(patches))
      i == CHOOSE i \in 1..Len(candidates) :
             /\ \A j \in 1..Len(candidates) : ~SortsBefore(candidates[j], candidates[i])
             /\ \A j \in 1..(i - 1) : SortsBefore(candidates[i], candidates[j])
  IN candidates[i]

\* lines 190 and 200: a whole-target patch stores its value object itself in
\* the outputs, and a field patch writes into the dict the target holds.  So
\* a field patch applied to a target that holds the dict of an accepted
\* patch changes the value that patch carries in audit_info['accepted'].
Mutated(st, outputs, chosen) ==
  IF chosen.field # NULL /\ chosen.target \in DOMAIN st.alias /\ st.alias[chosen.target] > 0
    THEN [st.accepted EXCEPT ![st.alias[chosen.target]].value =
                               DictVal(outputs[chosen.target].fields)]
    ELSE st.accepted
Aliased(st, chosen) ==
  IF chosen.field = NULL /\ chosen.target \in DOMAIN st.alias
    THEN [st.alias EXCEPT ![chosen.target] =
                            IF chosen.value.kind = "dict" THEN Len(st.accepted) + 1 ELSE 0]
    ELSE st.alias

\* lines 266-331: the groups are resolved and applied one after the other.
RECURSIVE ResolveGroups(_, _, _)
ResolveGroups(keys, all_patches, st) ==
  IF keys = << >> THEN st
  ELSE LET chosen == Chosen(Group(all_patches, Head(keys)))
           a == _apply_patch(st.outputs, chosen)
           entry == [type |-> "accepted", agent |-> chosen.agent, round |-> chosen.round,
                     patch |-> chosen]
       IN ResolveGroups(Tail(keys), all_patches,
            [st EXCEPT !.outputs = a.outputs,
                       !.chosen = Append(@, chosen),
                       !.accepted = IF a.applied THEN Append(Mutated(st, a.outputs, chosen), chosen)
                                    ELSE @,
                       !.alias = IF a.applied THEN Aliased(st, chosen) ELSE @,
                       !.ledger = IF a.applied THEN Append(@, entry) ELSE @])

\* The chosen patches of one round, per group, for agents held in `order`.
ChosenPatches(order, proposal, r) ==
  LET all_patches == Collect(CoreAgents \o order, proposal, r)
      keys == GroupKeys(all_patches)
  IN [k \in {keys[i] : i \in 1..Len(keys)} |-> Chosen(Group(all_patches, k))]

\* AgentOrchestrator() with the priority list, the added agents registered in
\* some order, and analyze_clause() up to the start of the critique rounds.
InitResolve ==
  /\ policies = EmptyFn
  /\ policyCount = 0
  /\ impactRows = << >>
  /\ proposals = EmptyFn
  /\ versions = << >>
  /\ auditLog = << >>
  /\ ret = NoRet
  /\ wf = NoWf
  /\ sess = [s \in Sessions |-> IdleSess]
  /\ sync = NoSync
  /\ rag = NoRag
  /\ call = NoCall
  /\ \E order \in Perms(AddedAgents), proposal \in [AddedAgents -> CritiqueReturns] :
       orch = [NoOrch EXCEPT !.order = order, !.proposal = proposal, !.outputs = InitialOutputs,
                             !.history = <<InitialOutputs>>,
                             !.alias = [t \in DOMAIN InitialOutputs |-> 0]]

\* One pass of the loop "for r in range(max_rounds)", lines 215-331, from
\* the orchestrator's state o.
critique_round(o) ==
  LET r == o.round
      all_outputs_snapshot == Snapshot(o.outputs)
      all_patches == Collect(CoreAgents \o o.order,
                             Critiques(o.proposal, o.settles, all_outputs_snapshot), r)
      proposed == [i \in 1..Len(all_patches) |->
                     [type |-> "proposal", agent |-> all_patches[i].agent, round |-> r,
                      patch |-> all_patches[i]]]
      called == [o EXCEPT !.seen = @ \o Calls(CoreAgents \o o.order, r, all_outputs_snapshot)]
      st == ResolveGroups(GroupKeys(all_patches), all_patches,
                          [called EXCEPT !.patches = all_patches, !.chosen = << >>,
                                         !.ledger = @ \o proposed])
  IN IF all_patches = << >>
       THEN [called EXCEPT !.patches = << >>, !.chosen = << >>, !.done = TRUE]
       ELSE [st EXCEPT !.round = r + 1, !.history = Append(@, st.outputs)]

CritiqueRound ==
  /\ ~orch.done
  /\ InRange(orch.round)
  /\ orch' = critique_round(orch)
  /\ UNCHANGED <<policies, policyCount, impactRows, proposals, versions, auditLog, ret, wf, sess, sync, rag, call>>

\* lines 332-333: the loop has run max_rounds times.
ReturnOutputs ==
  /\ ~orch.done
  /\ ~InRange(orch.round)
  /\ orch' = [orch EXCEPT !.done = TRUE]
  /\ UNCHANGED <<policies, policyCount, impactRows, proposals, versions, auditLog, ret, wf, sess, sync, rag, call>>

NextResolve ==
  \/ CritiqueRound
  \/ ReturnOutputs

SpecResolve == InitResolve /\ [][NextResolve]_vars

\* analyze_clause with agents that may read the outputs they are given, each
\* proposing at most one patch of a smaller choice.
RoundsReturns ==
  {<< >>} \cup {<<Patch(t, f, v, c)>> : t \in PatchTargets, f \in PatchFields,
                                       v \in {Val("list", "P-X"), Val("list", "P-Y")},
                                       c \in {40, 80}}

InitRounds ==
  /\ policies = EmptyFn
  /\ policyCount = 0
  /\ impactRows = << >>
  /\ proposals = EmptyFn
  /\ versions = << >>
  /\ auditLog = << >>
  /\ ret = NoRet
  /\ wf = NoWf
  /\ sess = [s \in Sessions |-> IdleSess]
  /\ sync = NoSync
  /\ rag = NoRag
  /\ call = NoCall
  /\ \E order \in Perms(AddedAgents), proposal \in [AddedAgents -> RoundsReturns],
        settles \in BOOLEAN :
       orch = [NoOrch EXCEPT !.order = order, !.proposal = proposal, !.settles = settles,
                             !.outputs = InitialOutputs, !.history = <<InitialOutputs>>,
                             !.alias = [t \in DOMAIN InitialOutputs |-> 0]]

SpecRounds == InitRounds /\ [][NextResolve]_vars

\* lines 215-333: the rounds of analyze_clause run from state o to the return.
RECURSIVE Rounds(_)
Rounds(o) ==
  IF o.done THEN o
  ELSE IF InRange(o.round) THEN Rounds(critique_round(o))
  ELSE [o EXCEPT !.done = TRUE]

\* analyze_clause with agents that build their patch anew in every round:
\* a patch replacing the whole target "policy" by a dict, or a patch setting
\* its field.
OrderReturns ==
  {<< >>}
    \cup {<<Patch("policy", NULL, DictVal([f \in PatchFields |-> v]), c)>> :
            v \in {NoValue, Val("list", "P-Y")}, c \in {40, 80}}
    \cup {<<Patch("policy", f, Val("list", x), c)>> :
            f \in PatchFields, x \in {"P-X", "P-Y"}, c \in {40, 80}}

\* The orchestrator with the added agents registered in `order`.
Registered(order, proposal) ==
  [NoOrch EXCEPT !.order = order, !.proposal = proposal, !.outputs = InitialOutputs,
                 !.history = <<InitialOutputs>>,
                 !.alias = [t \in DOMAIN InitialOutputs |-> 0]]

InitOrder ==
  /\ policies = EmptyFn
  /\ policyCount = 0
  /\ impactRows = << >>
  /\ proposals = EmptyFn
  /\ versions = << >>
  /\ auditLog = << >>
  /\ ret = NoRet
  /\ wf = NoWf
  /\ sess = [s \in Sessions |-> IdleSess]
  /\ sync = NoSync
  /\ rag = NoRag
  /\ call = NoCall
  /\ \E order \in Perms(AddedAgents), proposal \in [AddedAgents -> OrderReturns] :
       orch = Registered(order, proposal)

SpecOrder == InitOrder /\ [][NextResolve]_vars

(* ============== policy-sync patch store and endpoints (SpecSync) ======== *)
(* The patch table, the policy store, the PolicyVersion and AuditEvent      *)
(* tables and the ledger file are the fields of the record `sync`.  Each    *)
(* helper is a function from that record to the record it leaves behind.    *)
MaxLedger == 3
SyncPatchIds == {"patch-1", "patch-2"}
SyncPolicyIds == {"P-1", "P-2"}
SyncTexts == {"X1", NULL}

\* A patch value: a non-empty list whose first element is a dict with a
\* policy_id and possibly a policy_text (kind "list"), or anything else.
ListValue(pol, text) == [kind |-> "list", policy_id |-> pol, policy_text |-> text]
OtherValue == [kind |-> "other", policy_id |-> NULL, policy_text |-> NULL]
SyncValues == {ListValue(pol, text) : pol \in SyncPolicyIds, text \in SyncTexts} \cup {OtherValue}

PatchRow(status, accepted_by, value) ==
  [status |-> status, accepted_by |-> accepted_by, value |-> value]
AuditEvent(pid, event_type, actor, pol) ==
  [patch_id |-> pid, event_type |-> event_type, actor |-> actor, policy_id |-> pol]
Entry(type, pid, agent, value) ==
  [type |-> type, patch_id |-> pid, agent |-> agent, value |-> value]
SyncRet(op, code, status, pid, reviewer) ==
  [op |-> op, code |-> code, status |-> status, patch_id |-> pid, reviewer |-> reviewer]

\* db.persist_proposal: a new row with status 'proposed' and a 'proposal'
\* event in one commit; a row with that id already there makes the commit fail
\* and the transaction roll back (the caller swallows the exception).
persist_proposal(y, e) ==
  IF e.patch_id \in DOMAIN y.patches THEN y
  ELSE [y EXCEPT !.patches = @ @@ (e.patch_id :> PatchRow("proposed", NULL, e.value)),
                 !.audit_events = Append(@, AuditEvent(e.patch_id, "proposal", e.agent, NULL))]

\* db.persist_acceptance without a reviewer: the row is created or set to
\* 'accepted' with accepted_by None, and an 'accepted' event is added.
persist_acceptance(y, e) ==
  [y EXCEPT !.patches = IF e.patch_id \in DOMAIN @
                          THEN [@ EXCEPT ![e.patch_id].status = "accepted",
                                         ![e.patch_id].accepted_by = NULL]
                          ELSE @ @@ (e.patch_id :> PatchRow("accepted", NULL, e.value)),
            !.audit_events = Append(@, AuditEvent(e.patch_id, "accepted", e.agent, NULL))]

\* The status db.review_patch gives a patch for a review action.
ReviewStatus(action) ==
  IF action = "accept" THEN "accepted" ELSE IF action = "reject" THEN "rejected" ELSE "proposed"

\* db.review_patch: None (nothing written) when the patch is missing; else the
\* status of the action, accepted_by on accept, and a 'review' event.
db_review_patch(y, pid, action, reviewer) ==
  IF pid \notin DOMAIN y.patches THEN y
  ELSE [y EXCEPT !.patches[pid].status = ReviewStatus(action),
                 !.patches[pid].accepted_by = IF action = "accept" THEN reviewer ELSE @,
                 !.audit_events = Append(@, AuditEvent(pid, "review", reviewer, NULL))]

\* append_audit, lines 13-17: one line is appended to the ledger file.
WriteLine(y, e) == [y EXCEPT !.ledger = Append(@, [type |-> e.type, patch_id |-> e.patch_id, agent |-> e.agent])]

\* A variant of PersistToDb whose fallback also runs for 'applied' entries.
PersistToDb_any_type(y, e) ==
  IF e.type = "proposal" THEN persist_proposal(y, e)
  ELSE IF e.type = "accepted" THEN persist_acceptance(y, e)
  ELSE IF e.patch_id # NULL THEN db_review_patch(y, e.patch_id, "proposed", e.agent)
  ELSE y

\* append_audit, lines 20-47: the entry is persisted by its type; an entry of
\* any other type than 'proposal' and 'accepted' that names a patch, except
\* an 'applied' one, goes to db.review_patch with the action 'proposed'.
PersistToDb(y, e) ==
  IF e.type = "proposal" THEN persist_proposal(y, e)
  ELSE IF e.type = "accepted" THEN persist_acceptance(y, e)
  ELSE IF e.patch_id # NULL /\ e.type \notin {"applied"}
    THEN db_review_patch(y, e.patch_id, "proposed", e.agent)
  ELSE y

append_audit(y, e) == PersistToDb(WriteLine(y, e), e)

\* POST /patches/{patch_id}/review
review_patch(y, pid, action, reviewer) ==
  IF pid \notin DOMAIN y.patches
    THEN [y EXCEPT !.ret = SyncRet("review", 404, "ERROR", pid, reviewer)]
    ELSE [append_audit(db_review_patch(y, pid, action, reviewer),
                       Entry("review", pid, reviewer, NULL))
            EXCEPT !.ret = SyncRet("review", 200, ReviewStatus(action), pid, reviewer)]

\* db.create_or_update_policy, a transaction of its own: an existing policy
\* gets a PolicyVersion holding its previous text and then the new text; a
\* missing one is created with the text.
create_or_update_policy(y, pol, text, author) ==
  IF pol \in DOMAIN y.store
    THEN [y EXCEPT !.policy_versions =
                     Append(@, [policy_id |-> pol, policy_text |-> y.store[pol], changed_by |-> author]),
                   !.store[pol] = text]
    ELSE [y EXCEPT !.store = @ @@ (pol :> text)]

\* db.apply_patch accepts a value that is a non-empty list starting with a dict.
Applicable(value) == value.kind = "list"

\* db.apply_patch for a stored, applicable patch.  The policy is written and
\* committed first; then the patch is marked applied and the 'applied' event
\* added in a second commit, which `fail` makes raise (the patch's transaction
\* rolls back, the policy write stays).
db_apply_patch(y, pid, reviewer, fail) ==
  IF fail
    THEN create_or_update_policy(y, y.patches[pid].value.policy_id,
                                 PyOr(y.patches[pid].value.policy_text, EmptyText), reviewer)
    ELSE [create_or_update_policy(y, y.patches[pid].value.policy_id,
                                  PyOr(y.patches[pid].value.policy_text, EmptyText), reviewer)
            EXCEPT !.patches[pid].status = "applied",
                   !.patches[pid].accepted_by = reviewer,
                   !.audit_events = Append(@, AuditEvent(pid, "applied", reviewer,
                                                         y.patches[pid].value.policy_id))]

\* POST /patches/{patch_id}/apply
apply_patch_endpoint(y, pid, reviewer, fail) ==
  IF pid \notin DOMAIN y.patches \/ ~Applicable(y.patches[pid].value)
    THEN [y EXCEPT !.ret = SyncRet("apply", 404, "ERROR", pid, reviewer)]
  ELSE IF fail
    THEN [db_apply_patch(y, pid, reviewer, TRUE)
            EXCEPT !.ret = SyncRet("apply", 500, "ERROR", pid, reviewer)]
    ELSE [append_audit(db_apply_patch(y, pid, reviewer, FALSE),
                       Entry("applied", pid, reviewer, NULL))
            EXCEPT !.ret = SyncRet("apply", 200, "applied", pid, reviewer)]

\* An empty patch database and ledger; the other system is idle.
InitSync ==
  /\ policies = EmptyFn
  /\ policyCount = 0
  /\ impactRows = << >>
  /\ proposals = EmptyFn
  /\ versions = << >>
  /\ auditLog = << >>
  /\ ret = NoRet
  /\ wf = NoWf
  /\ sess = [s \in Sessions |-> IdleSess]
  /\ orch = NoOrch
  /\ sync = NoSync
  /\ rag = NoRag
  /\ call = NoCall

SyncRest == <<policies, policyCount, impactRows, proposals, versions, auditLog, ret, wf, sess, orch, rag, call>>
Room == Len(sync.ledger) < MaxLedger /\ Len(sync.policy_versions) < MaxLedger

\* An agent's patch is collected: append_audit({'type': 'proposal', ...}).
ProposePatch ==
  \E pid \in SyncPatchIds, value \in SyncValues :
    /\ Room
    /\ sync' = [append_audit(sync, Entry("proposal", pid, "agent", value))
                  EXCEPT !.ret = SyncRet("proposal", 0, "NONE", pid, NULL)]
    /\ UNCHANGED SyncRest

\* A collected patch is chosen and applied to the outputs:
\* append_audit({'type': 'accepted', ...}).
AcceptPatch ==
  \E pid \in DOMAIN sync.patches :
    /\ Room
    /\ sync' = [append_audit(sync, Entry("accepted", pid, "agent", sync.patches[pid].value))
                  EXCEPT !.ret = SyncRet("accepted", 0, "NONE", pid, NULL)]
    /\ UNCHANGED SyncRest

ReviewPatch ==
  \E pid \in SyncPatchIds, action \in {"accept", "reject", "request_changes"}, reviewer \in Reviewers :
    /\ Room
    /\ sync' = review_patch(sync, pid, action, reviewer)
    /\ UNCHANGED SyncRest

ApplyPatch ==
  \E pid \in SyncPatchIds, reviewer \in Reviewers, fail \in BOOLEAN :
    /\ Room
    /\ sync' = apply_patch_endpoint(sync, pid, reviewer, fail)
    /\ UNCHANGED SyncRest

NextSync ==
  \/ ProposePatch
  \/ AcceptPatch
  \/ ReviewPatch
  \/ ApplyPatch

SpecSync == InitSync /\ [][NextSync]_vars

(* ============================= audit reads ============================= *)
\* An audit row is stamped performed_at when it is written; rows are written
\* one after another, so the stamp of the row at position i is i.
performed_at(log) == [i \in 1..Len(log) |-> i]
limit == 100
Reversed(seq) == [i \in 1..Len(seq) |-> seq[Len(seq) + 1 - i]]
FirstN(seq, n) == SubSeq(seq, 1, IF n < Len(seq) THEN n ELSE Len(seq))

\* AuditGovernanceAgent.get_audit_trail(entity_id=...): the rows that pass the
\* filter, order_by(performed_at.desc()), the first `limit` of them.  The
\* result is given as the sequence of the returned rows' stamps.
get_audit_trail(log, entity_id) ==
  FirstN(Reversed(SelectSeq(performed_at(log),
                            LAMBDA i : entity_id = NULL \/ log[i].entity_id = entity_id)),
         limit)

\* reggenai.audit.read_audit: the lines of the ledger file from first to last,
\* each parsed (every line append_audit wrote is parsable), given as positions.
read_audit(ledger) == [i \in 1..Len(ledger) |-> i]

(* ================== RAGImpactAgent: impact scoring (SpecImpact) ========= *)
\* Scores are in thousandths: 850 stands for 0.85.
SIMILARITY_THRESHOLD == 700
RawScores == {600, 700, 720, 800, 850, 1000}

\* VectorStore.search_policies keeps the matches whose score reaches the threshold.
search_policies == {s \in RawScores : s >= SIMILARITY_THRESHOLD}

Min(a, b) == IF a <= b THEN a ELSE b

\* The boost of a domain match: min(1.0, similarity_score * 1.2).
adjusted_score(similarity_score, domain_match) ==
  IF domain_match THEN Min(1000, (similarity_score * 12) \div 10) ELSE similarity_score

impact_level(score) ==
  IF score >= 850 THEN "High"
  ELSE IF score >= 750 THEN "Medium"
  ELSE IF score >= 650 THEN "Low"
  ELSE "None"

Impact(policy_id, level, score) ==
  [policy_id |-> policy_id, impact_level |-> level, impact_score |-> score]

_analyze_heuristic(policy_id, similarity_score, domain_match) ==
  Impact(policy_id, impact_level(adjusted_score(similarity_score, domain_match)),
         adjusted_score(similarity_score, domain_match))

\* What the generative model does with one prompt: it raises, answers without
\* a JSON object, or answers an object in which a key may be missing (NULL for
\* the level, NoScore for the score).
NoScore == -1
LlmReplies ==
  [kind : {"raises", "no_json"}, impact_level : {NULL}, impact_score : {NoScore}]
    \cup [kind : {"json"}, impact_level : {"High", "Low", "None", NULL},
          impact_score : {700, 900, NoScore}]

_analyze_with_llm(policy_id, similarity_score, domain_match, reply) ==
  IF reply.kind \in {"raises", "no_json"}
    THEN _analyze_heuristic(policy_id, similarity_score, domain_match)
    ELSE Impact(policy_id,
                IF reply.impact_level = NULL THEN "Medium" ELSE reply.impact_level,
                IF reply.impact_score = NoScore THEN similarity_score ELSE reply.impact_score)

_analyze_impact(use_llm, m) ==
  IF use_llm
    THEN _analyze_with_llm(m.policy_id, m.similarity_score, m.domain_match, m.reply)
    ELSE _analyze_heuristic(m.policy_id, m.similarity_score, m.domain_match)

\* The matches of one run, in the order analysed.
MaxMatches == 2
Matches ==
  [policy_id : {"P-1", "P-2"}, similarity_score : search_policies,
   domain_match : BOOLEAN, reply : LlmReplies]

\* The loop of run: the impacts whose level is not "None", in analysis order.
RECURSIVE all_impacts(_, _)
all_impacts(use_llm, ms) ==
  IF ms = << >> THEN << >>
  ELSE IF _analyze_impact(use_llm, Head(ms)).impact_level # "None"
    THEN <<_analyze_impact(use_llm, Head(ms))>> \o all_impacts(use_llm, Tail(ms))
    ELSE all_impacts(use_llm, Tail(ms))

\* all_impacts.sort(key=impact_score, reverse=True): stable, highest first.
RECURSIVE SortedByScore(_)
InsertByScore(sorted, x) ==
  SelectSeq(sorted, LAMBDA y : y.impact_score >= x.impact_score)
    \o <<x>> \o SelectSeq(sorted, LAMBDA y : y.impact_score < x.impact_score)
SortedByScore(seq) ==
  IF seq = << >> THEN << >>
  ELSE InsertByScore(SortedByScore(SubSeq(seq, 1, Len(seq) - 1)), seq[Len(seq)])

RAGImpactAgent_score(r, ms, ok) ==
  IF ok
    THEN [r EXCEPT !.status = "SUCCESS",
                   !.stored = all_impacts(r.use_llm, ms),
                   !.returned = SortedByScore(all_impacts(r.use_llm, ms))]
    ELSE [r EXCEPT !.status = "FAILED"]            \* exception, rollback

ImpactRest == <<policies, policyCount, impactRows, proposals, versions, auditLog, ret, wf, sess, orch, sync, call>>

InitImpact ==
  /\ policies = EmptyFn
  /\ policyCount = 0
  /\ impactRows = << >>
  /\ proposals = EmptyFn
  /\ versions = << >>
  /\ auditLog = << >>
  /\ ret = NoRet
  /\ wf = NoWf
  /\ sess = [s \in Sessions |-> IdleSess]
  /\ orch = NoOrch
  /\ sync = NoSync
  /\ rag \in {[NoRag EXCEPT !.use_llm = u] : u \in BOOLEAN}
  /\ call = NoCall

ImpactRun ==
  /\ rag.status = "NONE"
  /\ \E ms \in SeqsUpTo(Matches, MaxMatches), ok \in BOOLEAN :
       rag' = RAGImpactAgent_score(rag, ms, ok)
  /\ UNCHANGED ImpactRest

NextImpact == ImpactRun

SpecImpact == InitImpact /\ [][NextImpact]_vars

(* ========== analysing steps and the generative service (SpecService) ===== *)
\* Three steps call a generative service: analyze_clause's core analyses
\* (policy-sync), RAGImpactAgent._analyze_with_llm and
\* DiffEngineAgent._generate_with_llm.  The service answers a text holding a
\* JSON object, a text without one, raises, or never answers.

\* lines 170-178: the analyses analyze_clause runs, in this order.
AnalysisOrder == <<"regulatory", "policy", "risk", "diff">>

\* What one analysis returns: the parsed answer, or the agent's fallback dict.
Parsed(agent) == [of |-> agent, source |-> "service"]
FallbackDict(agent) == [of |-> agent, source |-> "fallback"]

\* agent.analyze: llm.generate is called outside the try, json.loads inside.
analyze(agent, reply) ==
  IF reply.kind = "raises" THEN [raised |-> TRUE, value |-> NULL]
  ELSE IF reply.kind = "no_json" THEN [raised |-> FALSE, value |-> FallbackDict(agent)]
  ELSE [raised |-> FALSE, value |-> Parsed(agent)]

\* A draft: the policy text, with the template's compliance section or with
\* what the service wrote.
DraftOf(after_proposed_text, confidence) ==
  [after_proposed_text |-> after_proposed_text, confidence |-> confidence]
_generate_template_diff(policy_text) == DraftOf(<<policy_text, "COMPLIANCE REQUIREMENT">>, 75)

\* DiffEngineAgent._generate_with_llm: the whole call is inside the try.
_generate_with_llm(policy_text, reply) ==
  IF reply.kind \in {"raises", "no_json"}
    THEN _generate_template_diff(policy_text)
    ELSE DraftOf(IF reply.after_proposed_text = NULL THEN <<policy_text>>
                 ELSE <<reply.after_proposed_text>>, 80)

\* What the service can do with the prompt of each step; a key of the JSON
\* object may be missing (NULL).
Replies(prog) ==
  IF prog = "analyze_clause" THEN [kind : {"raises", "no_json", "json"}]
  ELSE IF prog = "impact" THEN LlmReplies
  ELSE [kind : {"raises", "no_json"}, after_proposed_text : {NULL}]
         \cup [kind : {"json"}, after_proposed_text : {"X1", NULL}]

\* The fallback of each step.
Fallback(c, agent) ==
  IF c.prog = "analyze_clause" THEN FallbackDict(agent)
  ELSE IF c.prog = "impact" THEN _analyze_heuristic("P-1", c.similarity_score, c.domain_match)
  ELSE _generate_template_diff(GeneratedText)

ServiceRest == <<policies, policyCount, impactRows, proposals, versions, auditLog, ret, wf, sess, orch, sync, rag>>

InitService ==
  /\ policies = EmptyFn
  /\ policyCount = 0
  /\ impactRows = << >>
  /\ proposals = EmptyFn
  /\ versions = << >>
  /\ auditLog = << >>
  /\ ret = NoRet
  /\ wf = NoWf
  /\ sess = [s \in Sessions |-> IdleSess]
  /\ orch = NoOrch
  /\ sync = NoSync
  /\ rag = NoRag
  /\ \E prog \in {"analyze_clause", "impact", "draft"}, s \in search_policies, m \in BOOLEAN :
       call = [NoCall EXCEPT !.prog = prog,
                             !.similarity_score = IF prog = "impact" THEN s ELSE 0,
                             !.domain_match = IF prog = "impact" THEN m ELSE FALSE]

\* The step sends its prompt: llm.generate / model.generate_content is entered.
StartCall ==
  /\ call.pc = "idle"
  /\ call' = [call EXCEPT !.pc = "waiting"]
  /\ UNCHANGED ServiceRest

\* What the step makes of the answer `reply`.
Answered(c, reply) ==
  IF c.prog = "analyze_clause"
    THEN [raised |-> analyze(AnalysisOrder[c.at + 1], reply).raised,
          value |-> analyze(AnalysisOrder[c.at + 1], reply).value]
  ELSE IF c.prog = "impact"
    THEN [raised |-> FALSE,
          value |-> _analyze_with_llm("P-1", c.similarity_score, c.domain_match, reply)]
  ELSE [raised |-> FALSE, value |-> _generate_with_llm(GeneratedText, reply)]

Logged_call(c, agent, reply, a) ==
  [c EXCEPT !.log = Append(@, [agent |-> agent, reply |-> reply.kind, raised |-> a.raised,
                                value |-> a.value, fallback |-> Fallback(c, agent)]),
            !.result = a.value]

\* The service answers and the step runs on to its next call or to its end:
\* an exception raised by an analysis leaves analyze_clause.
Answer ==
  /\ call.pc = "waiting"
  /\ \E reply \in Replies(call.prog) :
       call' = [Logged_call(call, IF call.prog = "analyze_clause" THEN AnalysisOrder[call.at + 1]
                                                                  ELSE call.prog,
                            reply, Answered(call, reply))
                  EXCEPT !.at = @ + 1,
                         !.pc = IF Answered(call, reply).raised THEN "raised"
                                ELSE IF call.prog = "analyze_clause" /\ call.at + 1 < Len(AnalysisOrder)
                                  THEN "idle"
                                ELSE "returned"]
  /\ UNCHANGED ServiceRest

NextService ==
  \/ StartCall
  \/ Answer

\* The interpreter runs the step's own code; nothing makes the service answer.
SpecService == InitService /\ [][NextService]_vars /\ WF_vars(StartCall)

(* ============================= properties ============================== *)
(* ret' names the call a step made (every action assigns it), so a step     *)
(* property of the form  ret'.op = ... => ...  speaks about that call.      *)
Last(seq) == seq[Len(seq)]
Appended(old, new) == Len(new) = Len(old) + 1 /\ SubSeq(new, 1, Len(old)) = old
VersionsOf(q) == {i \in 1..Len(versions) : versions[i].proposal_id = q}
VersionsFor(p) == {i \in 1..Len(versions) : versions[i].policy_id = p}
MaxOf(S) == CHOOSE i \in S : \A j \in S : j <= i

\* C1: the gate is not bypassed.  Proposals are created PENDING; a step that
\* moves a proposal out of PENDING is a decision call that carried a reviewer
\* id; a step that changes a policy's text or version or adds a PolicyVersion
\* is an approve call that carried a reviewer id and returned APPROVED.  Hence
\* no automated step (workflow run, gate run, any agent) has one of these effects,
\* and every PolicyVersion names the reviewer and the proposal of its approve call.
C1_GateNotBypassed ==
  /\ [](\A i \in 1..Len(versions) :
          /\ versions[i].changed_by \in Reviewers
          /\ versions[i].proposal_id \in DOMAIN proposals)
  /\ [][ /\ \A q \in DOMAIN proposals' \ DOMAIN proposals : proposals'[q].status = "PENDING"
         /\ (\E q \in DOMAIN proposals :
               proposals[q].status = "PENDING" /\ proposals'[q].status # "PENDING")
              => (ret'.op \in DecisionOps /\ ret'.reviewer \in Reviewers)
         /\ ((\E p \in DOMAIN policies : policies'[p] # policies[p]) \/ versions' # versions)
              => (ret'.op = "approve" /\ ret'.status = "APPROVED" /\ ret'.reviewer \in Reviewers)
     ]_vars

\* C1 witness: the gate has run on a pending proposal after another proposal was
\* approved by a reviewer, and the pending one is still pending.
C1_Witness ==
  /\ ret.op = "human_approval_run" /\ ret.status = "AWAITING_APPROVAL"
  /\ \E q \in DOMAIN proposals : proposals[q].status = "PENDING"
  /\ versions # << >>

\* C2: decisions are irreversible.  Once a proposal is APPROVED, REJECTED or
\* MODIFIED no call changes its status, and every decision call on it returns
\* an error.
C2_DecisionsIrreversible ==
  [][ \A q \in DOMAIN proposals :
        proposals[q].status # "PENDING"
          => /\ proposals'[q].status = proposals[q].status
             /\ (ret'.op \in DecisionOps /\ ret'.proposal_id = q) => ret'.status = "ERROR"
    ]_vars

\* C3: a second, different decision is refused without side effects.  approve
\* on a REJECTED proposal and reject on an APPROVED proposal return an error
\* and leave the proposals, the policies and the PolicyVersions as they were.
C3_DifferentDecisionRefused ==
  [][ \A q \in DOMAIN proposals :
        (/\ ret'.proposal_id = q
         /\ \/ (ret'.op = "approve" /\ proposals[q].status = "REJECTED")
            \/ (ret'.op = "reject" /\ proposals[q].status = "APPROVED"))
          => /\ ret'.status = "ERROR"
             /\ proposals' = proposals
             /\ policies' = policies
             /\ versions' = versions
    ]_vars

\* C3 witness: approve was just refused on a REJECTED proposal while another
\* proposal had been approved.
C3_Witness ==
  /\ ret.op = "approve" /\ ret.status = "ERROR"
  /\ ret.proposal_id \in DOMAIN proposals
  /\ proposals[ret.proposal_id].status = "REJECTED"
  /\ versions # << >>

\* What a successful approve call does besides the policy text: the policy's
\* version advances by one increment, one PolicyVersion linked to the proposal
\* and the reviewer is added, one audit entry for the proposal is appended.
ApproveStep(q) ==
  LET p == proposals[q].policy_id IN
  /\ policies'[p].version.parts
       = <<policies[p].version.parts[1], policies[p].version.parts[2] + 1>>
  /\ Appended(versions, versions')
  /\ Last(versions').proposal_id = q
  /\ Last(versions').changed_by = ret'.reviewer
  /\ Last(versions').policy_id = p
  /\ Last(versions').version_number = policies'[p].version
  /\ Appended(auditLog, auditLog')
  /\ Last(auditLog').entity_id = q
  /\ Last(auditLog').performed_by = ret'.reviewer
  /\ proposals'[q].status = "APPROVED"
  /\ proposals'[q].reviewer_id = ret'.reviewer
OneVersionPerApproved ==
  \A q \in DOMAIN proposals :
    proposals[q].status = "APPROVED" => Cardinality(VersionsOf(q)) = 1

C5_LiveTextIsLatestVersion ==
  \A p \in DOMAIN policies :
    VersionsFor(p) # {} => policies[p].policy_text = versions[MaxOf(VersionsFor(p))].policy_text

\* C6: reject and request_modification leave every policy, the PolicyVersions
\* and every other proposal alone; a call that is not refused writes only the
\* decision fields of its proposal and appends one audit entry for it.
C6_RejectModifyFrame ==
  [][ (ret'.op \in {"reject", "request_modification"})
        => /\ policies' = policies
           /\ policyCount' = policyCount
           /\ versions' = versions
           /\ impactRows' = impactRows
           /\ DOMAIN proposals' = DOMAIN proposals
           /\ \A q \in DOMAIN proposals :
                /\ q # ret'.proposal_id => proposals'[q] = proposals[q]
                /\ proposals'[q].policy_id = proposals[q].policy_id
                /\ proposals'[q].before_text = proposals[q].before_text
                /\ proposals'[q].after_proposed_text = proposals[q].after_proposed_text
           /\ IF ret'.status = "ERROR"
                THEN proposals' = proposals /\ auditLog' = auditLog
                ELSE /\ Appended(auditLog, auditLog')
                     /\ Last(auditLog').entity_id = ret'.proposal_id
                     /\ Last(auditLog').performed_by = ret'.reviewer
                     /\ proposals'[ret'.proposal_id].reviewer_id = ret'.reviewer
    ]_vars

\* C6 witness: a reject or a request_modification has just gone through: the
\* proposal carries its decision and reviewer and the last audit entry is for it.
C6_Witness ==
  /\ ret.op \in {"reject", "request_modification"} /\ ret.status # "ERROR"
  /\ proposals[ret.proposal_id].status \in {"REJECTED", "MODIFIED"}
  /\ proposals[ret.proposal_id].reviewer_id = ret.reviewer
  /\ Last(auditLog).entity_id = ret.proposal_id

\* The sessions whose approve call has returned APPROVED for a proposal on policy p.
ApprovalsOn(p) ==
  {s \in Sessions : /\ sess[s].pc = "done"
                    /\ sess[s].op = "approve"
                    /\ sess[s].status = "APPROVED"
                    /\ proposals[sess[s].pid].policy_id = p}

\* C7: first decision wins.  When two calls, an approve and a reject or two
\* approves, have both run on the same proposal that was PENDING, in whatever
\* interleaving of their steps, exactly one of them has succeeded, the
\* proposal's status is that call's, and the proposal has at most one
\* PolicyVersion.
C7_FirstDecisionWins ==
  \A s, t \in Sessions :
    (/\ s # t
     /\ sess[s].pc = "done" /\ sess[t].pc = "done"
     /\ sess[s].pid = sess[t].pid
     /\ sess[s].pid \in DOMAIN proposals
     /\ sess[s].op = "approve"
     /\ sess[t].op \in {"approve", "reject"})
      => /\ (sess[s].status = "ERROR") # (sess[t].status = "ERROR")
         /\ sess[s].status # "ERROR" => proposals[sess[s].pid].status = sess[s].status
         /\ sess[t].status # "ERROR" => proposals[sess[s].pid].status = sess[t].status
         /\ Cardinality(VersionsOf(sess[s].pid)) <= 1

\* C8: single writer.  When every call has returned and two approvals of
\* distinct proposals have succeeded on a policy, the policy's version has
\* advanced by one increment per such approval and its text is the text of
\* its latest PolicyVersion.
C8_SingleWriter ==
  \A p \in DOMAIN policies :
    (/\ \A s \in Sessions : sess[s].pc \in {"idle", "done"}
     /\ Cardinality(ApprovalsOn(p)) >= 2
     /\ \A s, t \in ApprovalsOn(p) : s # t => sess[s].pid # sess[t].pid)
      => /\ policies[p].version.parts
              = <<GeneratedVersion(p).parts[1],
                  GeneratedVersion(p).parts[2] + Cardinality(ApprovalsOn(p))>>
         /\ VersionsFor(p) # {}
         /\ policies[p].policy_text = versions[MaxOf(VersionsFor(p))].policy_text

\* The proposals the ledger holds for round r and the group of patch p.
LedgerGroup(p) ==
  {i \in 1..Len(orch.ledger) : /\ orch.ledger[i].type = "proposal"
                               /\ orch.ledger[i].round = p.round
                               /\ orch.ledger[i].patch.target = p.target
                               /\ orch.ledger[i].patch.field = p.field}
\* The summed confidence of the ledger entries in I that propose the value
\* serialized as items.
RECURSIVE ConfidenceSum(_, _)
ConfidenceSum(I, items) ==
  IF I = {} THEN 0
  ELSE LET i == CHOOSE i \in I : TRUE
           q == orch.ledger[i].patch
       IN (IF q.value.items = items THEN q.confidence ELSE 0) + ConfidenceSum(I \ {i}, items)

\* C9: resolver determinism.  With the agents' patches and agent_priority
\* fixed, the patch chosen for each (target, field) group of a round is the same
\* whatever the order in which the agents were registered.
C9_ResolverDeterministic ==
  \A o \in Perms(AddedAgents) :
    \A i \in 1..Len(orch.chosen) :
      ChosenPatches(o, orch.proposal, orch.chosen[i].round)[GroupKey(orch.chosen[i])]
        = orch.chosen[i]

\* C10: confidence-weighted voting.  Every patch applied in a round proposes a
\* value whose summed confidence over its group's patches with the same
\* serialized value is the highest of the group, and it is the only patch of its
\* group applied in that round.
C10_ConfidenceWeightedVoting ==
  \A i \in 1..Len(orch.accepted) :
    LET p == orch.accepted[i]
        G == LedgerGroup(p)
    IN /\ \A j \in G : ConfidenceSum(G, orch.ledger[j].patch.value.items)
                         <= ConfidenceSum(G, p.value.items)
       /\ \A j \in 1..Len(orch.accepted) :
            (/\ orch.accepted[j].round = p.round
             /\ orch.accepted[j].target = p.target
             /\ orch.accepted[j].field = p.field) => j = i

\* C10 witness: a patch was applied whose value two agents proposed at 0.4 and
\* 0.45, against another value proposed once at 0.8.
C10_Witness ==
  \E i \in 1..Len(orch.accepted) :
    LET p == orch.accepted[i]
        G == LedgerGroup(p)
    IN /\ ConfidenceSum(G, p.value.items) = 85
       /\ p.confidence = 45
       /\ \E j \in G : /\ orch.ledger[j].patch.value.items # p.value.items
                       /\ orch.ledger[j].patch.confidence = 80

\* The least agent_rank among the agents of `patches` that propose value key k.
BestRank(patches, k) ==
  LET R == {agent_rank(patches[i].agent) : i \in {j \in 1..Len(patches) : val_key(patches[j].value) = k}}
  IN CHOOSE r \in R : \A x \in R : r <= x

\* C11: priority tie-break.  When two distinct values of a (target, field)
\* group have the same aggregate score, the value of the chosen patch is the
\* one proposed by the agent that comes earliest in agent_priority (agents not
\* listed rank after the listed ones), whatever the registration order.
C11_PriorityTieBreak ==
  \A i \in 1..Len(orch.chosen) :
    LET c == orch.chosen[i]
        G == Group(orch.patches, GroupKey(c))
    IN \A j \in 1..Len(G) :
         (/\ val_key(G[j].value) # val_key(c.value)
          /\ Score(G, val_key(G[j].value)) = Score(G, val_key(c.value)))
           => BestRank(G, val_key(c.value)) <= BestRank(G, val_key(G[j].value))

\* Every patch collected in the current round has a ledger entry carrying it
\* (a patch is identified by its agent and round).
PatchesAudited ==
  \A i \in 1..Len(orch.patches) :
    \E j \in 1..Len(orch.ledger) : orch.ledger[j].patch = orch.patches[i]
\* Every change proposal has an audit entry whose entity is that proposal.
ProposalsAudited ==
  \A q \in DOMAIN proposals :
    \E i \in 1..Len(auditLog) : auditLog[i].entity_id = q

\* C12: audit completeness.  Every patch collected by analyze_clause, chosen
\* or not, and every change proposal the diff engine created, has at least one
\* audit entry that references its own id.
C12_AuditCompleteness == PatchesAudited /\ ProposalsAudited

C14_InvalidActionRecorded ==
  [][ \A q \in DOMAIN proposals :
        (/\ ret'.op \in DecisionOps
         /\ ret'.proposal_id = q
         /\ \/ (ret'.op = "approve" /\ proposals[q].status # "PENDING")
            \/ (ret'.op = "reject" /\ proposals[q].status # "PENDING")
            \/ (ret'.op = "request_modification" /\ proposals[q].status \in {"APPROVED", "REJECTED"}))
          => /\ ret'.status = "ERROR"
             /\ Appended(auditLog, auditLog')
             /\ Last(auditLog').entity_id = q
             /\ Last(auditLog').action_type # "PROPOSAL_APPROVED"
    ]_vars

\* The decision status a decision command gives a proposal.
DecisionOf(op) ==
  IF op = "approve" THEN "APPROVED" ELSE IF op = "reject" THEN "REJECTED" ELSE "MODIFIED"

\* C15: decision commands are idempotent against re-delivery.  A decision call
\* on a proposal that already carries that call's decision leaves the
\* proposals, the policies and the PolicyVersions as they were; a decision call
\* on a proposal that carries another decision returns an error.
C15_IdempotentRedelivery ==
  [][ \A q \in DOMAIN proposals :
        (ret'.op \in DecisionOps /\ ret'.proposal_id = q /\ proposals[q].status # "PENDING")
          => IF proposals[q].status = DecisionOf(ret'.op)
               THEN proposals' = proposals /\ policies' = policies /\ versions' = versions
               ELSE ret'.status = "ERROR"
    ]_vars

\* A read returns entries in write order when the positions at which they were
\* written increase along the result.
InWriteOrder(result) == \A i, j \in 1..Len(result) : i < j => result[i] < result[j]

\* C16: audit reads preserve write order.  Of any two entries that
\* get_audit_trail returns from the audit log (unfiltered or for one entity), and
\* of any two that read_audit returns from the ledger, the one written first
\* comes first.
C16_ReadsPreserveWriteOrder ==
  /\ InWriteOrder(get_audit_trail(auditLog, NULL))
  /\ \A i \in 1..Len(auditLog) : InWriteOrder(get_audit_trail(auditLog, auditLog[i].entity_id))
  /\ InWriteOrder(read_audit(orch.ledger))

\* Proposal q is stale when its policy's live text is no longer the text the
\* proposal was generated from (its before_text): an approval of another
\* proposal has changed the policy since.
Stale(q) ==
  /\ proposals[q].policy_id \in DOMAIN policies
  /\ policies[proposals[q].policy_id].policy_text # proposals[q].before_text
  /\ \E i \in VersionsFor(proposals[q].policy_id) : versions[i].proposal_id # q

\* C19: no lost update.  An approve call on a stale proposal does not
\* overwrite the newer text: it fails, or it leaves the policy's text as the
\* other approval wrote it.
C19_NoLostUpdate ==
  [][ \A q \in DOMAIN proposals :
        (ret'.op = "approve" /\ ret'.proposal_id = q /\ Stale(q))
          => \/ ret'.status = "ERROR"
             \/ policies'[proposals[q].policy_id].policy_text
                  = policies[proposals[q].policy_id].policy_text
    ]_vars

\* C17: when the review endpoint has just answered an accept with status
\* 'accepted', the stored status of the patch is 'accepted' (the audit entry the
\* endpoint appended did not change it).
C17_AcceptStaysAccepted ==
  (sync.ret.op = "review" /\ sync.ret.code = 200 /\ sync.ret.status = "accepted")
    => sync.patches[sync.ret.patch_id].status = "accepted"

\* What an apply call that went through does besides the policy text: the
\* endpoint answers 200, the patch is 'applied' with the reviewer recorded, one
\* 'applied' audit event for the patch and its policy is added, and the ledger
\* gains the endpoint's 'applied' entry.
ApplyStep(pid) ==
  /\ sync'.ret.code = 200
  /\ sync'.patches[pid].status = "applied"
  /\ sync'.patches[pid].accepted_by = sync'.ret.reviewer
  /\ Appended(sync.audit_events, sync'.audit_events)
  /\ Last(sync'.audit_events)
       = AuditEvent(pid, "applied", sync'.ret.reviewer, sync.patches[pid].value.policy_id)
  /\ Appended(sync.ledger, sync'.ledger)
  /\ Last(sync'.ledger).type = "applied"
\* An apply call on a stored patch with an applicable value that did not fail.
Applies(pid) ==
  /\ sync'.ret.op = "apply" /\ sync'.ret.patch_id = pid /\ sync'.ret.code # 500
  /\ pid \in DOMAIN sync.patches
  /\ Applicable(sync.patches[pid].value)

TextWritten(pol) ==
  /\ pol \in DOMAIN sync'.store
  /\ (pol \notin DOMAIN sync.store \/ sync'.store[pol] # sync.store[pol])

\* C20: every step that creates or changes a policy's text also creates, in
\* that step, a PolicyVersion of that policy and an audit event naming it; a
\* step that fails between its two commits is a step too.
C20_TextWriteAtomic ==
  [][ \A pol \in SyncPolicyIds :
        TextWritten(pol)
          => /\ Appended(sync.policy_versions, sync'.policy_versions)
             /\ Last(sync'.policy_versions).policy_id = pol
             /\ \E i \in (Len(sync.audit_events) + 1)..Len(sync'.audit_events) :
                  sync'.audit_events[i].policy_id = pol
    ]_vars

\* C29: apply_patch never applies a patch that is 'rejected' or already
\* 'applied'.  An apply call on such a patch leaves the policy store, the
\* policy versions and the patch's status as they were.
C29_NoApplyOfRejectedOrApplied ==
  [][ \A pid \in DOMAIN sync.patches :
        (/\ sync'.ret.op = "apply" /\ sync'.ret.patch_id = pid
         /\ sync.patches[pid].status \in {"rejected", "applied"})
          => /\ sync'.store = sync.store
             /\ sync'.policy_versions = sync.policy_versions
             /\ sync'.patches[pid].status = sync.patches[pid].status
    ]_vars

\* The phases of a workflow run in their fixed order.
PhaseOrder == <<"POLICY_GENERATION", "REGULATORY_INGESTION", "RAG_ANALYSIS",
                "DIFF_GENERATION", "REMEDIATION", "HUMAN_APPROVAL", "AUDIT">>
IsPrefix(s, t) == Len(s) <= Len(t) /\ SubSeq(t, 1, Len(s)) = s

C22_MissingTargetNotApplied ==
  /\ [](/\ DOMAIN orch.outputs = DOMAIN InitialOutputs
        /\ \A i \in 1..Len(orch.accepted) : orch.accepted[i].target \in DOMAIN orch.outputs
        /\ \A i \in 1..Len(orch.ledger) :
             orch.ledger[i].type = "accepted" => orch.ledger[i].patch.target \in DOMAIN orch.outputs)
  /\ [][ \A t \in DOMAIN orch.outputs :
           orch'.outputs[t] # orch.outputs[t]
             => \E i \in 1..Len(orch'.chosen) : orch'.chosen[i].target = t
     ]_vars

\* C22 witness: a round has chosen a patch for the missing target "legal" and
\* applied another patch; the ledger holds the proposal for "legal" and no
\* 'accepted' entry for it.
C22_Witness ==
  /\ \E i \in 1..Len(orch.chosen) : orch.chosen[i].target = "legal"
  /\ \E i \in 1..Len(orch.ledger) :
       orch.ledger[i].type = "proposal" /\ orch.ledger[i].patch.target = "legal"
  /\ \A i \in 1..Len(orch.ledger) :
       orch.ledger[i].type = "accepted" => orch.ledger[i].patch.target # "legal"
  /\ orch.accepted # << >>
  /\ orch.outputs # InitialOutputs

\* C23: every resolution is recorded.  For each group resolved in the round
\* just run, the ledger holds an 'accepted' entry that carries the chosen
\* patch (with its round) and names its agent.
C23_ResolutionsRecorded ==
  \A i \in 1..Len(orch.chosen) :
    \E j \in 1..Len(orch.ledger) :
      /\ orch.ledger[j].type = "accepted"
      /\ orch.ledger[j].patch = orch.chosen[i]
      /\ orch.ledger[j].agent = orch.chosen[i].agent

\* C27: every impact assessment stored or returned by the impact scorer has a
\* score between 0 and 1 and a level among Low, Medium and High that is the
\* threshold bucket of that score; a pair of level None is not stored or returned.
ScoredInBucket(i) ==
  /\ i.impact_score >= 0 /\ i.impact_score <= 1000
  /\ i.impact_level \in {"Low", "Medium", "High"}
  /\ i.impact_level = impact_level(i.impact_score)

C27_ScoreAndLevel ==
  /\ \A k \in 1..Len(rag.stored) : ScoredInBucket(rag.stored[k])
  /\ \A k \in 1..Len(rag.returned) : ScoredInBucket(rag.returned[k])

\* C21: the critique phase ends after at most max_rounds rounds (every step
\* of the loop lowers the number of rounds left, which is never negative); a
\* round that collects no patch applies nothing, writes no audit entry and
\* ends the phase without another round; once the phase has ended nothing
\* changes.
RoundsLeft(o) == IF o.done THEN 0 ELSE max_rounds - o.round + 1

C21_RoundsTerminate ==
  /\ [](orch.round <= max_rounds)
  /\ [][orch' # orch => RoundsLeft(orch') < RoundsLeft(orch)]_vars
  /\ [][ (orch' # orch /\ orch'.patches = << >>)
           => /\ orch'.outputs = orch.outputs
              /\ orch'.ledger = orch.ledger
              /\ orch'.accepted = orch.accepted
              /\ orch'.round = orch.round
              /\ orch'.done ]_vars
  /\ [][orch.done => orch' = orch]_vars

\* A round without patches that follows a round whose patch was applied.
C21_Witness ==
  /\ orch.done
  /\ orch.round = 1
  /\ orch.patches = << >>
  /\ orch.accepted # << >>
  /\ orch.outputs # InitialOutputs

\* C24: every critique call of round r is given the outputs left by the end
\* of round r-1 (those of the analyses for round 0), the same for all the
\* agents, so what round r applies is seen by the calls of round r+1 only.
C24_RoundIsolation ==
  \A i \in 1..Len(orch.seen) :
    /\ orch.seen[i].round + 1 \in 1..Len(orch.history)
    /\ orch.seen[i].outputs = orch.history[orch.seen[i].round + 1]

\* Two rounds were run, the first changed the outputs and the calls of the
\* second were given the changed outputs.
C24_Witness ==
  /\ orch.done
  /\ Len(orch.history) >= 2
  /\ orch.history[2] # orch.history[1]
  /\ \E i \in 1..Len(orch.seen) :
       orch.seen[i].round = 1 /\ orch.seen[i].outputs = orch.history[2]

\* C25: whenever the service call raises or its answer cannot be parsed, the
\* analysing step raises nothing and returns exactly its fallback result.
C25_FallbackOnFailure ==
  \A i \in 1..Len(call.log) :
    call.log[i].reply \in {"raises", "no_json"}
      => ~call.log[i].raised /\ call.log[i].value = call.log[i].fallback

\* C26: a call of the service that is waiting for its answer does not wait
\* forever.
C26_HungCallReturns == (call.pc = "waiting") ~> (call.pc # "waiting")

\* C30: when a patch replacing a whole target and a patch setting a field of
\* that target both win in a round, what analyze_clause returns for the
\* target, and the values its accepted patches carry, are the same whatever
\* the order in which the agents were registered.
WholeAndField(chosen) ==
  \E i, j \in 1..Len(chosen) :
    /\ chosen[i].target = chosen[j].target
    /\ chosen[i].field = NULL
    /\ chosen[j].field # NULL

Carried(accepted) ==
  {[agent |-> accepted[i].agent, target |-> accepted[i].target, field |-> accepted[i].field,
    value |-> accepted[i].value] : i \in 1..Len(accepted)}

SameAs(o, other) ==
  /\ other.outputs = o.outputs
  /\ Carried(other.accepted) = Carried(o.accepted)

C30_OrderIndependent ==
  (orch.done /\ WholeAndField(orch.chosen))
    => \A order \in Perms(AddedAgents) :
         SameAs(orch, Rounds(Registered(order, orch.proposal)))

====
